---- MODULE Spec2Model ----
(***************************************************************************)
(* Conway's Game of Life on a toroidal grid: the two Universe crates of    *)
(* the repository.                                                         *)
(*   "double"  rust-wasm/src/lib.rs  (cells + next_cells, buffer swap)     *)
(*   "single"  src/lib.rs            (cells only, cloned buffer per tick)  *)
(* A FixedBitSet is modelled as [length, bits]: its length in bits and the *)
(* set of indices whose bit is 1 (always a subset of 0..length-1).         *)
(***************************************************************************)
EXTENDS Integers, Sequences, FiniteSets, TLC

VARIABLES variant, u, panicked, call, pc, case, e

vars == <<variant, u, panicked, call, pc, case, e>>

(***************************************************************************)
(* Bounds of the exploration.                                              *)
(***************************************************************************)
\* The host ticks, toggles, seeds and clears grids of at most MaxCells cells.
MaxCells == 3
\* The tests run on grids of at most MaxTestDim x MaxTestDim cells (and on
\* the glider's grid), seeded with at most MaxSeed live cells.
MaxTestDim == 3
MaxSeed == 3

(***************************************************************************)
(* Program constants.                                                      *)
(***************************************************************************)
\* u32 is 32 bits wide: two limbs of Limb = 2^16, each two of Byte = 2^8.
Limb == 65536
Byte == 256
DefaultDim == 128
DefaultDimSb == 256
GliderDim == 6

(***************************************************************************)
(* fixedbitset::FixedBitSet, as the crates use it.                         *)
(***************************************************************************)
FixedBitSet_with_capacity(bits) == [length |-> bits, bits |-> {}]

\* set() and toggle() assert bit < length; the callers below test that
\* before they call (the panic is modelled at the call site).
\* A set() that drops every other bit of the buffer.
FixedBitSet_set_only(b, bit, enabled) ==
    [b EXCEPT !.bits = IF enabled THEN {bit} ELSE {}]

FixedBitSet_set(b, bit, enabled) ==
    [b EXCEPT !.bits = IF enabled THEN @ \cup {bit} ELSE @ \ {bit}]

\* A toggle() that only ever switches the bit on.
FixedBitSet_insert(b, bit) == [b EXCEPT !.bits = @ \cup {bit}]

FixedBitSet_toggle(b, bit) ==
    [b EXCEPT !.bits = IF bit \in @ THEN @ \ {bit} ELSE @ \cup {bit}]

FixedBitSet_clear(b) == [b EXCEPT !.bits = {}]

FixedBitSet_grow(b, bits) ==
    IF bits > b.length THEN [b EXCEPT !.length = bits] ELSE b

\* Index<usize>: contains(bit), false for a bit at or beyond length.
FixedBitSet_index(b, bit) == bit < b.length /\ bit \in b.bits

\* `x as u8` of a bool
as_u8(x) == IF x THEN 1 ELSE 0

(***************************************************************************)
(* u32 arithmetic (release build: wrapping), computed limb by limb so that *)
(* no intermediate value leaves the range of the model checker's integers. *)
(***************************************************************************)
wrapping_add(a, b) ==
    LET lo == (a % Limb) + (b % Limb)
        hi == ((a \div Limb) + (b \div Limb) + (lo \div Limb)) % Limb
    IN IF a < Limb /\ b < Limb THEN a + b  \* no carry out of 32 bits
       ELSE hi * Limb + (lo % Limb)

wrapping_sub(a, b) == IF a >= b THEN a - b ELSE wrapping_add(a, (Limb - 1) * Limb + (Limb - b))

wrapping_mul(a, b) ==
    LET al == a % Limb
        ah == a \div Limb
        bl == b % Limb
        bh == b \div Limb
        \* al * bl as (p_hi, p_lo), through its bytes
        t == ((al \div Byte) * (bl % Byte) + (al % Byte) * (bl \div Byte)) * Byte
             + (al % Byte) * (bl % Byte)
        p_lo == t % Limb
        p_hi == (al \div Byte) * (bl \div Byte) + (t \div Limb)
        hi == (p_hi + ((ah * bl) % Limb) + ((al * bh) % Limb)) % Limb
    IN IF a < Byte /\ b < Byte THEN a * b  \* the product is below 2^16
       ELSE hi * Limb + p_lo

\* Whether a + b, a * b leave the u32 range (a build with overflow checks
\* panics there), computed without leaving the model checker's integers.
add_overflows(a, b) ==
    (a \div Limb) + (b \div Limb) + (((a % Limb) + (b % Limb)) \div Limb) >= Limb

mul_overflows(a, b) ==
    LET lo == IF a <= b THEN a ELSE b
        hi == IF a <= b THEN b ELSE a
        hh == hi \div Limb
        hl == hi % Limb
        \* the limb that hl * lo carries into
        carry == ((hl \div Byte) * lo + (((hl % Byte) * lo) \div Byte)) \div Byte
    IN IF lo >= Limb THEN TRUE
       ELSE lo # 0 /\ hh > (Limb - carry - 1) \div lo

(***************************************************************************)
(* Outcome of a call: the universe it leaves and whether it panicked.      *)
(***************************************************************************)
Ok(v) == [u |-> v, panic |-> FALSE]
Panic(v) == [u |-> v, panic |-> TRUE]

(***************************************************************************)
(* Universe (both crates where the code is the same).                      *)
(***************************************************************************)
new ==
    LET width == DefaultDim
        height == DefaultDim
        size == wrapping_mul(width, height)
        cells == FixedBitSet_with_capacity(size)
    IN [width |-> width, height |-> height, cells |-> cells, next_cells |-> cells]

\* src/lib.rs: every cell is set at random; `random` is the set of indices
\* that came out alive.
new_sb(random) ==
    LET width == DefaultDimSb
        height == DefaultDimSb
        size == wrapping_mul(width, height)
    IN [width |-> width, height |-> height,
        cells |-> [length |-> size, bits |-> random]]

size_of(v) == wrapping_mul(v.width, v.height)

update_cells_size(v) ==
    LET size == size_of(v)
    IN IF v.cells.length > size
       THEN [v EXCEPT !.cells = FixedBitSet_with_capacity(size)]
       ELSE [v EXCEPT !.cells = FixedBitSet_grow(@, size)]

\* A set_width() without the early return on an unchanged width.
set_width_always(v, width) == update_cells_size([v EXCEPT !.width = width])

set_width(v, width) ==
    IF v.width = width THEN v
    ELSE update_cells_size([v EXCEPT !.width = width])

set_height(v, height) ==
    IF v.height = height THEN v
    ELSE update_cells_size([v EXCEPT !.height = height])

\* A get_index that wraps row and column into the grid.
get_index_wrapped(v, row, column) ==
    wrapping_add(wrapping_mul(row % v.height, v.width), column % v.width)

get_index(v, row, column) == wrapping_add(wrapping_mul(row, v.width), column)

\* A clear() that empties the staging buffer instead of the current one.
clear_next_cells(v) == [v EXCEPT !.next_cells = FixedBitSet_clear(@)]

clear(v) == [v EXCEPT !.cells = FixedBitSet_clear(@)]

\* A toggle_cell() that flips the bit of the staging buffer.
toggle_cell_staged(v, row, col) ==
    LET index == get_index(v, row, col)
    IN IF index < v.next_cells.length
       THEN Ok([v EXCEPT !.next_cells = FixedBitSet_toggle(@, index)])
       ELSE Panic(v)

toggle_cell(v, row, col) ==
    LET index == get_index(v, row, col)
    IN IF index < v.cells.length
       THEN Ok([v EXCEPT !.cells = FixedBitSet_toggle(@, index)])
       ELSE Panic(v)

RECURSIVE set_alive_cells_from(_, _, _)
set_alive_cells_from(v, cells, k) ==
    IF k > Len(cells) THEN Ok(v)
    ELSE LET index == get_index(v, cells[k][1], cells[k][2])
         IN IF index < v.cells.length
            THEN set_alive_cells_from(
                     [v EXCEPT !.cells = FixedBitSet_set(@, index, TRUE)], cells, k + 1)
            ELSE Panic(v)

set_alive_cells(v, cells) == set_alive_cells_from(v, cells, 1)

get_cells(v) == v.cells

\* The match without its reproduction arm.
rule_no_reproduction(cell, live_neighbors) ==
    IF cell /\ live_neighbors < 2 THEN FALSE
    ELSE IF cell /\ (live_neighbors = 2 \/ live_neighbors = 3) THEN TRUE
    ELSE IF cell /\ live_neighbors > 3 THEN FALSE
    ELSE cell

\* The match with its underpopulation arm off by one (x < 1).
rule_lonely_survives(cell, live_neighbors) ==
    IF cell /\ live_neighbors < 1 THEN FALSE
    ELSE IF cell /\ (live_neighbors = 1 \/ live_neighbors = 2 \/ live_neighbors = 3) THEN TRUE
    ELSE IF cell /\ live_neighbors > 3 THEN FALSE
    ELSE IF ~cell /\ live_neighbors = 3 THEN TRUE
    ELSE cell

\* The match of tick(): (cell, live_neighbors) -> next state of the cell.
rule(cell, live_neighbors) ==
    IF cell /\ live_neighbors < 2 THEN FALSE
    ELSE IF cell /\ (live_neighbors = 2 \/ live_neighbors = 3) THEN TRUE
    ELSE IF cell /\ live_neighbors > 3 THEN FALSE
    ELSE IF ~cell /\ live_neighbors = 3 THEN TRUE
    ELSE cell

(***************************************************************************)
(* rust-wasm/src/lib.rs: if/else wraparound, next_cells, swap.             *)
(***************************************************************************)
\* A neighbour count that clamps at the edges instead of wrapping.
live_neighbor_count_clamped(v, row, column) ==
    LET north == IF row = 0 THEN row ELSE row - 1
        south == IF row = wrapping_sub(v.height, 1) THEN row ELSE row + 1
        west == IF column = 0 THEN column ELSE column - 1
        east == IF column = wrapping_sub(v.width, 1) THEN column ELSE column + 1
        at(r, c) == as_u8(FixedBitSet_index(v.cells, get_index(v, r, c)))
    IN at(north, west) + at(north, column) + at(north, east)
       + at(row, west) + at(row, east)
       + at(south, west) + at(south, column) + at(south, east)

live_neighbor_count(v, row, column) ==
    LET north == IF row = 0 THEN wrapping_sub(v.height, 1) ELSE row - 1
        south == IF row = wrapping_sub(v.height, 1) THEN 0 ELSE row + 1
        west == IF column = 0 THEN wrapping_sub(v.width, 1) ELSE column - 1
        east == IF column = wrapping_sub(v.width, 1) THEN 0 ELSE column + 1
        at(r, c) == as_u8(FixedBitSet_index(v.cells, get_index(v, r, c)))
    IN at(north, west) + at(north, column) + at(north, east)
       + at(row, west) + at(row, east)
       + at(south, west) + at(south, column) + at(south, east)

\* A scan that updates cells in place (no staging buffer, no swap).
RECURSIVE tick_from_in_place(_, _)
tick_from_in_place(v, i) ==
    IF i >= size_of(v) THEN Ok(v)
    ELSE LET row == i \div v.width
             col == i % v.width
             cell == FixedBitSet_index(v.cells, i)
             live_neighbors == live_neighbor_count(v, row, col)
         IN IF i < v.cells.length
            THEN tick_from_in_place(
                     [v EXCEPT !.cells =
                         FixedBitSet_set(@, i, rule(cell, live_neighbors))], i + 1)
            ELSE Panic(v)

\* A scan that writes next_cells only where the cell comes out alive.
RECURSIVE tick_from_skip_dead(_, _)
tick_from_skip_dead(v, i) ==
    IF i >= size_of(v)
    THEN Ok([v EXCEPT !.cells = v.next_cells, !.next_cells = v.cells])
    ELSE LET row == i \div v.width
             col == i % v.width
             cell == FixedBitSet_index(v.cells, i)
             live_neighbors == live_neighbor_count(v, row, col)
         IN IF i < v.next_cells.length
            THEN tick_from_skip_dead(
                     IF rule(cell, live_neighbors)
                     THEN [v EXCEPT !.next_cells = FixedBitSet_set(@, i, TRUE)]
                     ELSE v, i + 1)
            ELSE Panic(v)

RECURSIVE tick_from(_, _)
tick_from(v, i) ==
    IF i >= size_of(v)
    THEN Ok([v EXCEPT !.cells = v.next_cells, !.next_cells = v.cells])
    ELSE LET row == i \div v.width
             col == i % v.width
             cell == FixedBitSet_index(v.cells, i)
             live_neighbors == live_neighbor_count(v, row, col)
         IN IF i < v.next_cells.length
            THEN tick_from(
                     [v EXCEPT !.next_cells =
                         FixedBitSet_set(@, i, rule(cell, live_neighbors))], i + 1)
            ELSE Panic(v)

tick(v) == tick_from(v, 0)

(***************************************************************************)
(* src/lib.rs: modulo wraparound, cloned buffer.                           *)
(***************************************************************************)
live_neighbor_count_sb(v, row, column) ==
    LET delta_rows == <<wrapping_sub(v.height, 1), 0, 1>>
        delta_cols == <<wrapping_sub(v.width, 1), 0, 1>>
        term(a, b) ==
            IF delta_rows[a] = 0 /\ delta_cols[b] = 0 THEN 0
            ELSE LET neighbor_row == wrapping_add(row, delta_rows[a]) % v.height
                     neighbor_col == wrapping_add(column, delta_cols[b]) % v.width
                 IN as_u8(FixedBitSet_index(v.cells,
                                            get_index(v, neighbor_row, neighbor_col)))
    IN term(1, 1) + term(1, 2) + term(1, 3)
       + term(2, 1) + term(2, 2) + term(2, 3)
       + term(3, 1) + term(3, 2) + term(3, 3)

RECURSIVE tick_sb_from(_, _, _, _)
tick_sb_from(v, next_generation, row, col) ==
    IF row >= v.height THEN Ok([v EXCEPT !.cells = next_generation])
    ELSE IF col >= v.width THEN tick_sb_from(v, next_generation, row + 1, 0)
    ELSE LET index == get_index(v, row, col)
             cell == FixedBitSet_index(v.cells, index)
             live_neighbors == live_neighbor_count_sb(v, row, col)
         IN IF index < next_generation.length
            THEN tick_sb_from(v,
                     FixedBitSet_set(next_generation, index, rule(cell, live_neighbors)),
                     row, col + 1)
            ELSE Panic(v)

tick_sb(v) == tick_sb_from(v, v.cells, 0, 0)

(***************************************************************************)
(* The host: any sequence of calls on one Universe.  A panic ends the run  *)
(* (the wasm instance traps).  `call` is the call that was made last (a    *)
(* coordinate list is not recorded).                                       *)
(***************************************************************************)
Call(op, args) == [op |-> op, args |-> args]

NoCase == [width |-> 0, height |-> 0, seed |-> <<>>, expected |-> <<>>]
NoUniverse == [width |-> 0, height |-> 0, cells |-> FixedBitSet_with_capacity(0)]

\* Outcomes of js_sys::Math::random() < 0.5 over the cells of new().
RandomOutcomes == {{}, {0}, {0, 1, DefaultDimSb}}

Dims == 1..MaxCells

\* The grids the host works on; on a larger one it only resizes.
InBounds(v) == size_of(v) <= MaxCells

\* Coordinates the host passes: every cell of the grid, the first cell of
\* the row below the grid, and the column right of the grid.
HostCoords(v) ==
    ((0..(v.height - 1)) \X (0..(v.width - 1)))
    \cup {<<v.height, 0>>}
    \cup {<<r, v.width>> : r \in 0..(v.height - 1)}

\* The host seeds one coordinate per call (the tests seed whole lists).
CoordLists(v) == {<<c>> : c \in HostCoords(v)}

Return(r, c) ==
    /\ u' = r.u
    /\ panicked' = r.panic
    /\ call' = c
    /\ UNCHANGED <<variant, pc, case, e>>

SetWidthTo(width) ==
    /\ pc = "host" /\ ~panicked
    /\ Return(Ok(set_width(u, width)), Call("set_width", <<width>>))

SetHeightTo(height) ==
    /\ pc = "host" /\ ~panicked
    /\ Return(Ok(set_height(u, height)), Call("set_height", <<height>>))

ToggleCellAt(row, col) ==
    /\ pc = "host" /\ ~panicked /\ variant = "double" /\ InBounds(u)
    /\ Return(toggle_cell(u, row, col), Call("toggle_cell", <<row, col>>))

SetAliveCellsOf(cells) ==
    /\ pc = "host" /\ ~panicked /\ InBounds(u)
    /\ Return(set_alive_cells(u, cells), Call("set_alive_cells", <<>>))

SetWidth == \E width \in Dims : SetWidthTo(width)

SetHeight == \E height \in Dims : SetHeightTo(height)

ToggleCell == InBounds(u) /\ \E c \in HostCoords(u) : ToggleCellAt(c[1], c[2])

SetAliveCells == InBounds(u) /\ \E cells \in CoordLists(u) : SetAliveCellsOf(cells)

Clear ==
    /\ pc = "host" /\ ~panicked /\ variant = "double" /\ InBounds(u)
    /\ Return(Ok(clear(u)), Call("clear", <<>>))

Tick ==
    /\ pc = "host" /\ ~panicked /\ InBounds(u)
    /\ Return(IF variant = "double" THEN tick(u) ELSE tick_sb(u), Call("tick", <<>>))

(***************************************************************************)
(* The tests (tests/web.rs of both crates): test_tick builds               *)
(* input_universe(), ticks it once, builds expected_universe() and asserts *)
(* that the two cell buffers are equal.  The repository's case is the      *)
(* glider on 6 x 6; the other cases run the same test on every small grid  *)
(* and seed, expecting the seed's Conway successor.                        *)
(***************************************************************************)
Grid(width, height) == (0..(height - 1)) \X (0..(width - 1))

\* The 8 offset directions (dr, dc).
Offsets == (({-1, 0, 1}) \X ({-1, 0, 1})) \ {<<0, 0>>}

\* Number of offsets whose toroidal neighbour of (row, col) is in `live`.
ToroidalCount(width, height, live, row, col) ==
    Cardinality({o \in Offsets :
        <<(row + o[1] + height) % height, (col + o[2] + width) % width>> \in live})

Conway(alive, n) == IF alive THEN n = 2 \/ n = 3 ELSE n = 3

\* The Conway successor of the live set `live` on the width x height torus.
Successor(width, height, live) ==
    {c \in Grid(width, height) :
        Conway(c \in live, ToroidalCount(width, height, live, c[1], c[2]))}

\* A coordinate set as a list, in row-major order.
RECURSIVE AsList(_)
AsList(S) ==
    IF S = {} THEN <<>>
    ELSE LET first == CHOOSE c \in S :
                 \A d \in S : c[1] < d[1] \/ (c[1] = d[1] /\ c[2] <= d[2])
         IN <<first>> \o AsList(S \ {first})

GliderCase ==
    [width |-> GliderDim, height |-> GliderDim,
     seed |-> <<<<1, 2>>, <<2, 3>>, <<3, 1>>, <<3, 2>>, <<3, 3>>>>,
     expected |-> <<<<2, 1>>, <<2, 3>>, <<3, 2>>, <<3, 3>>, <<4, 2>>>>]

TestDims == 1..MaxTestDim

\* The seeds of a width x height grid: at most MaxSeed live cells.
Seeds(width, height) ==
    {S \in SUBSET Grid(width, height) : Cardinality(S) <= MaxSeed}

SmallCases(width, height) ==
    {[width |-> width, height |-> height, seed |-> AsList(S),
      expected |-> AsList(Successor(width, height, S))] : S \in Seeds(width, height)}

Cases ==
    {GliderCase} \cup UNION {SmallCases(d[1], d[2]) : d \in TestDims \X TestDims}

TestStep(r, c, next_pc) ==
    /\ ~panicked
    /\ u' = r.u
    /\ panicked' = r.panic
    /\ call' = c
    /\ pc' = next_pc
    /\ UNCHANGED <<variant, case, e>>

TestSetWidth ==
    /\ pc = "input_new"
    /\ TestStep(Ok(set_width(u, case.width)), Call("set_width", <<case.width>>),
                "input_width")

TestSetHeight ==
    /\ pc = "input_width"
    /\ TestStep(Ok(set_height(u, case.height)), Call("set_height", <<case.height>>),
                "input_height")

TestSetAliveCells ==
    /\ pc = "input_height"
    /\ TestStep(set_alive_cells(u, case.seed), Call("set_alive_cells", <<>>),
                "input_universe")

TestTick ==
    /\ pc = "input_universe"
    /\ TestStep(IF variant = "double" THEN tick(u) ELSE tick_sb(u), Call("tick", <<>>),
                "ticked")

expected_universe(fresh, c) ==
    set_alive_cells(set_height(set_width(fresh, c.width), c.height), c.expected)

TestExpected ==
    /\ pc = "ticked" /\ ~panicked
    /\ \E fresh \in IF variant = "double" THEN {new}
                     ELSE {new_sb(r) : r \in RandomOutcomes} :
          LET r == expected_universe(fresh, case)
          IN /\ e' = r.u
             /\ panicked' = r.panic
    /\ call' = Call("set_alive_cells", <<>>)
    /\ pc' = "compare"
    /\ UNCHANGED <<variant, u, case>>

\* assert_eq!(input_universe.get_cells(), expected_universe.get_cells())
TestAssert ==
    /\ pc = "compare" /\ ~panicked
    /\ pc' = IF get_cells(u) = get_cells(e) THEN "passed" ELSE "failed"
    /\ UNCHANGED <<variant, u, panicked, call, case, e>>

Init ==
    /\ variant \in {"double", "single"}
    /\ u \in IF variant = "double" THEN {new} ELSE {new_sb(r) : r \in RandomOutcomes}
    /\ panicked = FALSE
    /\ call = Call("new", <<>>)
    /\ pc \in {"host", "input_new"}
    /\ case \in IF pc = "host" THEN {NoCase} ELSE Cases
    /\ e = NoUniverse

Next ==
    \/ SetWidth \/ SetHeight \/ ToggleCell \/ SetAliveCells \/ Clear \/ Tick
    \/ TestSetWidth \/ TestSetHeight \/ TestSetAliveCells \/ TestTick
    \/ TestExpected \/ TestAssert

Spec == Init /\ [][Next]_vars

(***************************************************************************)
(* The host with dimensions around 2^16, where width * height and          *)
(* row * width + column leave the u32 range.  There the outcome depends on *)
(* the build: without overflow checks (release) the arithmetic wraps, with *)
(* them (debug) the operation panics.                                      *)
(***************************************************************************)
LargeDims == {1, 2, Limb, Limb + 1}

\* In-range coordinates the host toggles on such a grid.
LargeCoords(v) ==
    {c \in {<<0, 0>>, <<1, 0>>, <<Limb, 0>>, <<Limb, Limb>>} :
        c[1] < v.height /\ c[2] < v.width}

index_overflows(v, row, column) ==
    mul_overflows(row, v.width) \/ add_overflows(wrapping_mul(row, v.width), column)

\* The outcomes of update_cells_size() on v, whose dimension `resized` has
\* just been assigned.
ResizeOutcomes(v, resized) ==
    {Ok(update_cells_size(resized))}
    \cup IF mul_overflows(resized.width, resized.height) THEN {Panic(resized)} ELSE {}

SetWidthLarge ==
    /\ pc = "host" /\ ~panicked
    /\ \E width \in LargeDims :
          \E r \in IF u.width = width THEN {Ok(u)}
                    ELSE ResizeOutcomes(u, [u EXCEPT !.width = width]) :
              Return(r, Call("set_width", <<width>>))

SetHeightLarge ==
    /\ pc = "host" /\ ~panicked
    /\ \E height \in LargeDims :
          \E r \in IF u.height = height THEN {Ok(u)}
                    ELSE ResizeOutcomes(u, [u EXCEPT !.height = height]) :
              Return(r, Call("set_height", <<height>>))

ToggleCellLarge ==
    /\ pc = "host" /\ ~panicked /\ variant = "double"
    /\ \E c \in LargeCoords(u) :
          \E r \in {toggle_cell(u, c[1], c[2])}
                    \cup IF index_overflows(u, c[1], c[2]) THEN {Panic(u)} ELSE {} :
              Return(r, Call("toggle_cell", c))

LargeInit == Init /\ pc = "host"

LargeNext == SetWidthLarge \/ SetHeightLarge \/ ToggleCellLarge

LargeSpec == LargeInit /\ [][LargeNext]_vars

(***************************************************************************)
(* What the claims speak of.                                               *)
(***************************************************************************)
\* Linear indices of the grid, and the live ones among them.
CellIndices(v) == 0..(size_of(v) - 1)
LiveIndices(v) == {i \in CellIndices(v) : i \in v.cells.bits}
LiveCoords(v) == {<<i \div v.width, i % v.width>> : i \in LiveIndices(v)}
AllDead(v) == LiveIndices(v) = {}
Flip(bits, i) == IF i \in bits THEN bits \ {i} ELSE bits \cup {i}

\* A step that is a call of tick().
TickStep == call'.op = "tick" /\ (Tick \/ TestTick)

\* C1: in both crates the glider test's universe (new, set_width(6),
\* set_height(6), set_alive_cells of the glider) has, after exactly one
\* tick, the live set {(2,1),(2,3),(3,2),(3,3),(4,2)} over the 6x6 grid.
C1_GliderAfterOneTick ==
    (pc = "ticked" /\ case = GliderCase) =>
        /\ ~panicked
        /\ LiveCoords(u) = {<<2, 1>>, <<2, 3>>, <<3, 2>>, <<3, 3>>, <<4, 2>>}

C1_Witness ==
    /\ pc = "ticked" /\ case = GliderCase /\ variant = "single"
    /\ call.op = "tick" /\ ~panicked

\* C2 (as claimed): in the double-buffered crate, the buffer get_cells()
\* returns after seeding P and ticking once equals (same length, same bits)
\* the buffer of a universe of the same size seeded with P's successor.
C2_TickedEqualsExpected ==
    (variant = "double" /\ pc = "compare") => get_cells(u) = get_cells(e)

\* C3: in the double-buffered crate a tick() that returns leaves every cell
\* of the grid in the state Conway's rule gives it from the pre-tick cells
\* alone (8 offsets, rows/cols wrapped modulo height/width), whatever
\* next_cells held; width and height are unchanged.
C3_TickAppliesConway ==
    [][(variant = "double" /\ TickStep /\ ~panicked') =>
          /\ LiveCoords(u') = Successor(u.width, u.height, LiveCoords(u))
          /\ u'.width = u.width /\ u'.height = u.height]_vars

C3_Witness ==
    /\ variant = "double" /\ call.op = "tick" /\ ~panicked
    /\ \E i \in CellIndices(u) : i \in u.cells.bits /\ i \notin u.next_cells.bits
    /\ \E i \in CellIndices(u) : i \notin u.cells.bits /\ i \in u.next_cells.bits

\* C4 (as claimed): in the double-buffered crate, in every reachable state
\* cells.len() = next_cells.len() = width * height.
C4_BufferLengths ==
    variant = "double" =>
        /\ u.cells.length = u.width * u.height
        /\ u.next_cells.length = u.width * u.height

\* C5 (as claimed): in the double-buffered crate tick() never fails in a
\* state reached by resizes to positive dimensions, in-range toggles and
\* seeds, clear and earlier ticks.
C5_TickNeverFails == ~(variant = "double" /\ call.op = "tick" /\ panicked)

C7_CornerIsNeighbour ==
    (u.width * u.height > 1 /\ u.cells.length >= u.width * u.height) =>
        LET corner == (u.height - 1) * u.width + (u.width - 1)
            alive == [u EXCEPT !.cells.bits = @ \cup {corner}]
            dead == [u EXCEPT !.cells.bits = @ \ {corner}]
        IN IF variant = "double"
           THEN live_neighbor_count(alive, 0, 0) >= live_neighbor_count(dead, 0, 0) + 1
           ELSE live_neighbor_count_sb(alive, 0, 0) >= live_neighbor_count_sb(dead, 0, 0) + 1

C7_Witness ==
    /\ variant = "single" /\ call.op = "tick" /\ ~panicked
    /\ u.width > 1 /\ u.height > 1
    /\ (u.height - 1) * u.width + (u.width - 1) \in u.cells.bits
    /\ 0 \in u.cells.bits
    /\ live_neighbor_count_sb(u, 0, 0) >= 1

\* The only live cell of the grid, before a step.
OnlyLive(v, i) == LiveIndices(v) = {i}

\* C8 (as claimed): for every width, height >= 1, a cell that is the only
\* live cell of the grid is dead after one tick().
C8_LoneCellDies ==
    [][(variant = "double" /\ TickStep /\ ~panicked') =>
          \A i \in CellIndices(u) : OnlyLive(u, i) => i \notin u'.cells.bits]_vars

\* C8 (amended): in the double-buffered crate, on every grid with width and
\* height both >= 2, or both 1, a cell that is the only live cell of the
\* grid is dead after one tick() (on a grid with exactly one dimension
\* equal to 1 the cell is its own neighbour twice and survives); in the
\* single-buffer crate this holds for every width, height >= 1.
C8_LoneCellDiesUnlessOwnNeighbour ==
    [][(TickStep /\ ~panicked'
        /\ (variant = "double" =>
               (u.width >= 2 /\ u.height >= 2) \/ (u.width = 1 /\ u.height = 1))) =>
          \A i \in CellIndices(u) : OnlyLive(u, i) => i \notin u'.cells.bits]_vars

C8_Witness ==
    /\ variant = "double" /\ call.op = "tick" /\ ~panicked
    /\ u.width >= 2 /\ u.height >= 2
    /\ Cardinality(u.next_cells.bits \cap CellIndices(u)) = 1
    /\ AllDead(u)

\* C9: in both crates, tick() on a grid all of whose cells are dead leaves
\* every cell of the grid dead (so all-dead persists over any run of ticks).
C9_AllDeadStaysDead ==
    [][(TickStep /\ AllDead(u)) => AllDead(u')]_vars

C9_Witness ==
    /\ variant = "double" /\ call.op = "tick" /\ ~panicked /\ pc = "host"
    /\ u.next_cells.length = u.width * u.height
    /\ u.next_cells.bits = {}
    /\ AllDead(u)

\* C10: in the double-buffered crate clear() leaves every cell dead and
\* width, height and cells.len() as they were, whatever next_cells holds,
\* and a tick() right after clear() leaves every cell of the grid dead.
C10_ClearThenTick ==
    [][/\ (call'.op = "clear" /\ Clear) =>
                   /\ AllDead(u')
                   /\ u'.cells.bits = {}
                   /\ u'.width = u.width /\ u'.height = u.height
                   /\ u'.cells.length = u.cells.length
       /\ (call.op = "clear" /\ call'.op = "tick" /\ Tick) => AllDead(u')]_vars

C10_Witness ==
    /\ variant = "double" /\ call.op = "clear" /\ ~panicked
    /\ u.next_cells.bits \cap CellIndices(u) # {}
    /\ u.next_cells.length >= u.width * u.height
    /\ AllDead(u)

\* A toggle_cell(row, col) step with row < height and col < width.
InRangeToggle ==
    /\ call'.op = "toggle_cell"
    /\ call'.args[1] < u.height /\ call'.args[2] < u.width
    /\ ToggleCellAt(call'.args[1], call'.args[2])

\* C11: in the double-buffered crate, after toggle_cell(row, col) with
\* in-range (row, col), a second toggle_cell(row, col) returns and gives
\* back exactly the universe before the first call (cells, next_cells,
\* width and height).
C11_ToggleTwiceRestores ==
    [][InRangeToggle =>
          /\ ~panicked'
          /\ toggle_cell(u', call'.args[1], call'.args[2]) = Ok(u)]_vars

C11_Witness ==
    /\ call.op = "toggle_cell" /\ ~panicked
    /\ call.args[1] < u.height /\ call.args[2] < u.width
    /\ get_index(u, call.args[1], call.args[2]) \in u.cells.bits
    /\ Cardinality(LiveIndices(u)) >= 2

\* Lists of one or two in-range coordinates (a coordinate may repeat).
InRangeLists(v) ==
    LET G == Grid(v.width, v.height)
    IN {<<>>} \cup {<<c>> : c \in G} \cup {<<c, d>> : c \in G, d \in G}

Range(list) == {list[k] : k \in 1..Len(list)}

\* The (row, column) of each linear index of `indices` on the grid of v.
CoordsOf(v, indices) == {<<i \div v.width, i % v.width>> : i \in indices}

\* C12: in both crates, in every reachable state and for every list L of
\* in-range coordinates, set_alive_cells(L) returns, leaves as live set the
\* previous live set united with L, changes no other bit, width or height,
\* and a second set_alive_cells(L) changes nothing.
C12_SeedingIsUnion ==
    InBounds(u) =>
        LET inside == CellIndices(u)
            live == CoordsOf(u, u.cells.bits \cap inside)
            outside == u.cells.bits \ inside
        IN \A L \in InRangeLists(u) :
               LET r == set_alive_cells(u, L)
               IN /\ ~r.panic
                  /\ CoordsOf(u, r.u.cells.bits \cap inside) = live \cup Range(L)
                  /\ r.u.cells.bits \ inside = outside
                  /\ r.u = [u EXCEPT !.cells.bits = r.u.cells.bits]
                  /\ set_alive_cells(r.u, L) = r

C12_Witness ==
    /\ variant = "single" /\ pc = "host" /\ ~panicked
    /\ call.op = "set_alive_cells"
    /\ Cardinality(LiveIndices(u)) >= 2
    /\ Cardinality(LiveIndices(u)) < u.width * u.height

\* A step that is a call of set_width() or set_height().
ResizeStep ==
    /\ call'.op \in {"set_width", "set_height"}
    /\ (SetWidth \/ SetHeight \/ TestSetWidth \/ TestSetHeight)

\* C13 (as claimed): in both crates, right after new() and right after
\* every set_width/set_height call, whatever came before it,
\* cells.len() = width * height.
C13_LengthAfterResize ==
    (call.op \in {"new", "set_width", "set_height"}) =>
        u.cells.length = u.width * u.height

\* C14 (as claimed): a set_width/set_height that changes the dimension
\* leaves every cell of the resized grid dead.
C14_ResizeResets ==
    [][(ResizeStep /\ (u'.width # u.width \/ u'.height # u.height)) =>
          AllDead(u')]_vars

\* C16 (as claimed): in the double-buffered crate, after a growing resize
\* (new cell count >= old cells.len()) every cell at a linear index at or
\* beyond the old width * height is dead.
C16_GrownCellsDead ==
    [][(variant = "double" /\ ResizeStep
        /\ (u'.width # u.width \/ u'.height # u.height)
        /\ size_of(u') >= u.cells.length) =>
          \A i \in size_of(u)..(size_of(u') - 1) : i \notin u'.cells.bits]_vars

\* C17: in both crates set_width(w) with w the current width, and
\* set_height(h) with h the current height, return and leave the universe
\* as it was: width, height, cells and next_cells, bits and lengths.
C17_SameValueIsNoOp ==
    [][/\ (call'.op = "set_width" /\ SetWidthTo(u.width)) => (u' = u /\ ~panicked')
       /\ (call'.op = "set_height" /\ SetHeightTo(u.height)) => (u' = u /\ ~panicked')
      ]_vars

\* Only a call with the current width leaves cells.len() off width * height.
C17_Witness ==
    /\ variant = "double" /\ call.op = "set_width" /\ ~panicked
    /\ u.cells.length > size_of(u)
    /\ LiveIndices(u) # {}

\* C19: in the double-buffered crate toggle_cell(row, col) with
\* row < height and col < width returns, inverts the liveness of the cell
\* (row, col) and leaves every other cell, every bit outside the grid,
\* width, height, cells.len() and next_cells as they were (nothing of the
\* universe but bits of cells changes).
C19_ToggleFrame ==
    [][InRangeToggle =>
          LET cell == <<call'.args[1], call'.args[2]>>
              inside == CellIndices(u)
          IN /\ ~panicked'
             /\ LiveCoords(u') = Flip(LiveCoords(u), cell)
             /\ u'.cells.bits \ inside = u.cells.bits \ inside
             /\ u' = [u EXCEPT !.cells.bits = u'.cells.bits]]_vars

C19_Witness ==
    /\ call.op = "toggle_cell" /\ ~panicked
    /\ call.args[1] < u.height /\ call.args[2] < u.width
    /\ <<call.args[1], call.args[2]>> \notin LiveCoords(u)
    /\ LiveCoords(u) # {}
    /\ u.next_cells.bits # {}

\* C18 (as claimed): in the single-buffer crate, for every width,
\* height >= 1 and every (row, col) of the grid, live_neighbor_count(row,
\* col) is the number of the 8 offsets (dr, dc) whose cell
\* ((row+dr+height) mod height, (col+dc+width) mod width) is alive, counted
\* with multiplicity.
C18_CountIsToroidal ==
    (variant = "single" /\ InBounds(u)) =>
        \A c \in Grid(u.width, u.height) :
            live_neighbor_count_sb(u, c[1], c[2])
                = ToroidalCount(u.width, u.height, LiveCoords(u), c[1], c[2])

\* The grid of v as a universe of the other crate.
AsDouble(v) ==
    [width |-> v.width, height |-> v.height, cells |-> v.cells,
     next_cells |-> FixedBitSet_with_capacity(size_of(v))]
AsSingle(v) == [width |-> v.width, height |-> v.height, cells |-> v.cells]

\* C20 (as claimed): started from the same grid, the tick() of the
\* double-buffered crate and the tick() of the single-buffer crate leave
\* the same live set over the indices 0..width*height (tick by tick, so
\* after any number of ticks).
C20_TicksAgree ==
    [][TickStep =>
          LET other == IF variant = "double" THEN tick_sb(AsSingle(u))
                       ELSE tick(AsDouble(u))
          IN /\ ~panicked' => ~other.panic
             /\ (~panicked' /\ ~other.panic) => LiveCoords(u') = LiveCoords(other.u)]_vars

\* len = width * height over the integers (no product is formed).
IsProduct(len, width, height) ==
    IF width = 0 THEN len = 0 ELSE len % width = 0 /\ len \div width = height

\* C15 (as claimed): a width * height beyond the u32 range is reported as a
\* failure and never truncated: every universe a set_width/set_height call
\* returns has cells.len() = width * height over the integers, and no
\* toggle_cell(row, col) returns after row * width + col wrapped.
C15_OverflowIsReported ==
    [][/\ ~panicked' => IsProduct(u'.cells.length, u'.width, u'.height)
       /\ (call'.op = "toggle_cell" /\ ToggleCellLarge /\ ~panicked') =>
              ~index_overflows(u, call'.args[1], call'.args[2])]_vars

====
